---------------------------- MODULE Spec2Model ----------------------------
(***************************************************************************)
(* The connection handlers of aioshadowsocks (shadowsocks/handlers.py) and *)
(* the cipher selection they depend on (shadowsocks/cryptor.py): one       *)
(* LocalHandler per client connection, all sharing one user object, with   *)
(* the coroutines they schedule on the event loop modelled one step per    *)
(* stretch of code between two suspension points.                          *)
(***************************************************************************)
EXTENDS Integers, Sequences, FiniteSets, TLC

(***************************************************************************)
(* Bounds of the model.                                                    *)
(***************************************************************************)
\* handlers sharing the one user object
NumConns == 2
\* chunks the transport layer delivers, over all handlers
MaxData == 2
\* calls of handle_data_received, over all handlers, where the order of the
\* chunks is followed
MaxChunks == 3
\* calls of write, over all handlers
MaxWrites == 1

Conns == 1..NumConns

(***************************************************************************)
(* Program constants.                                                      *)
(***************************************************************************)
STAGE_INIT == 0
STAGE_CONNECT == 1
STAGE_STREAM == 2
STAGE_DESTROY == -1
STAGE_ERROR == 255
\* TimeoutHandler._timeout_limit
timeout_limit == 20
\* range(25) of the poll loop of _handle_stage_connect
PollBudget_more == 25 + 1

PollBudget == 25

None == "None"

\* shadowsocks/protocol_flag.py: the handlers only compare these values for
\* equality.
TRANSPORT_TCP == "TRANSPORT_TCP"
TRANSPORT_UDP == "TRANSPORT_UDP"
ATYPE_IPV4 == 4
ATYPE_DOMAINNAME == 3
ATYPE_IPV6 == 6

(***************************************************************************)
(* Python's sequence operations on bytes (0-based, slices clamp).          *)
(***************************************************************************)
Min(a, b) == IF a < b THEN a ELSE b

\* data[a:b]
Slice(data, a, b) ==
    IF a >= Min(b, Len(data)) THEN << >> ELSE SubSeq(data, a + 1, Min(b, Len(data)))

\* data[a:]
SliceFrom(data, a) == Slice(data, a, Len(data))

\* the two bytes read least significant first ('<H')
unpack_H_le(b) ==
    IF Len(b) # 2 THEN [exc |-> "struct.error", val |-> 0]
    ELSE [exc |-> "none", val |-> b[2] * 256 + b[1]]

\* struct.unpack('!H', b)[0]: exactly two bytes, most significant first
unpack_H(b) ==
    IF Len(b) # 2 THEN [exc |-> "struct.error", val |-> 0]
    ELSE [exc |-> "none", val |-> b[1] * 256 + b[2]]

\* socket.inet_ntop(family, packed): the address in its text form, here the
\* family and the numbers the text spells (4 octets, or 8 groups of 16 bits)
inet_ntop(family, packed) ==
    IF family = "AF_INET"
    THEN IF Len(packed) # 4 THEN [exc |-> "ValueError", val |-> << >>]
         ELSE [exc |-> "none", val |-> <<"AF_INET", packed>>]
    ELSE IF Len(packed) # 16 THEN [exc |-> "ValueError", val |-> << >>]
         ELSE [exc |-> "none",
               val |-> <<"AF_INET6",
                         [g \in 1..8 |-> packed[2 * g - 1] * 256 + packed[2 * g]]>>]

(***************************************************************************)
(* The header parse at the head of _handle_stage_init: the destination and *)
(* the payload, the exception a step raises, or the unknown-atype branch.  *)
(***************************************************************************)
ParseFail(e) ==
    [exc |-> e, unknown |-> FALSE, dst_addr |-> << >>, dst_port |-> 0, payload |-> << >>]

ParseOk(addr, port, payload) ==
    [exc |-> "none", unknown |-> FALSE, dst_addr |-> addr, dst_port |-> port,
     payload |-> payload]

ParseHeader(data) ==
    IF Len(data) = 0 THEN ParseFail("IndexError")
    ELSE LET atype == data[1] IN
      IF atype = ATYPE_IPV4 THEN
        LET a == inet_ntop("AF_INET", Slice(data, 1, 5))
            p == unpack_H(Slice(data, 5, 7))
        IN IF a.exc # "none" THEN ParseFail(a.exc)
           ELSE IF p.exc # "none" THEN ParseFail(p.exc)
           ELSE ParseOk(a.val, p.val, SliceFrom(data, 7))
      ELSE IF atype = ATYPE_IPV6 THEN
        LET a == inet_ntop("AF_INET6", Slice(data, 1, 17))
            p == unpack_H(Slice(data, 17, 19))
        IN IF a.exc # "none" THEN ParseFail(a.exc)
           ELSE IF p.exc # "none" THEN ParseFail(p.exc)
           ELSE ParseOk(a.val, p.val, SliceFrom(data, 19))
      ELSE IF atype = ATYPE_DOMAINNAME THEN
        IF Len(data) < 2 THEN ParseFail("IndexError")
        ELSE LET domain_length == data[2]
                 domain_index == 2 + domain_length
                 p == unpack_H(Slice(data, domain_index, domain_index + 2))
             IN IF p.exc # "none" THEN ParseFail(p.exc)
                ELSE ParseOk(Slice(data, 2, domain_index), p.val,
                             SliceFrom(data, domain_index + 2))
      ELSE [ParseFail("none") EXCEPT !.unknown = TRUE]

(***************************************************************************)
(* shadowsocks/cryptor.py.  Of the cipher families (shadowsocks/crypto)    *)
(* only the contract is modelled: each declares the method names it        *)
(* supports, and its decrypt either returns the plaintext or raises.       *)
(***************************************************************************)
AES_SUPPORT_METHODS == {"aes-256-cfb"}
NONE_SUPPORT_METHODS == {"none"}

\* Cryptor.SUPPORT_METHODS after _register_chipher
SUPPORT_METHODS == [aes |-> AES_SUPPORT_METHODS, none |-> NONE_SUPPORT_METHODS]

\* the method names a handler may be constructed with, one of them unsupported
Methods == {"aes-256-cfb", "rc4-md5"}

\* Cryptor.__init__(method, password, flag): the family that claims the
\* method, or NotImplementedError when none does
CryptorInit(method, password, flag) ==
    LET found == {name \in DOMAIN SUPPORT_METHODS : method \in SUPPORT_METHODS[name]}
    IN IF found = {} THEN [exc |-> "NotImplementedError", crypto |-> None]
       ELSE [exc |-> "none", crypto |-> CHOOSE name \in found : TRUE]

\* Cryptor(*args): Python binds the arguments to (method, password, flag)
\* before the body runs
CryptorCall(args) ==
    IF Len(args) # 3 THEN [exc |-> "TypeError", crypto |-> None]
    ELSE CryptorInit(args[1], args[2], args[3])

\* The outcomes of the handlers' `Cryptor(self._method, self._key)`.  The
\* call as written passes two arguments and raises TypeError; the call with
\* the transport flag supplied is kept as an outcome as well, so that what
\* the handlers do with a bound cryptor is part of the model.
NewCryptor(method, key) ==
    {CryptorCall(<<method, key>>)} \cup
    {CryptorCall(<<method, key, f>>) : f \in {TRANSPORT_TCP, TRANSPORT_UDP}}

\* bytes a cipher puts in front of the plaintext of a chunk
FramingOverhead == 1

\* a chunk on the wire: its bytes, and whether the cipher accepts them
WireChunk(plain, auth) == [bytes |-> <<0>> \o plain, auth |-> auth]

\* Cryptor.decrypt: any failure of the cipher becomes RuntimeError
decrypt(w) ==
    IF w.auth THEN [exc |-> "none", data |-> SliceFrom(w.bytes, FramingOverhead)]
    ELSE [exc |-> "RuntimeError", data |-> << >>]

(***************************************************************************)
(* What the client sends.                                                  *)
(***************************************************************************)
\* IPv4 1.2.3.4, port 443, one byte of payload
HeaderV4 == <<ATYPE_IPV4, 1, 2, 3, 4, 1, 187, 9>>
\* domain "ab", port 80, two bytes of payload
HeaderDomain == <<ATYPE_DOMAINNAME, 2, 97, 98, 0, 80, 8, 9>>
\* domain length 5 with 2 bytes left in the buffer
HeaderDomainShort == <<ATYPE_DOMAINNAME, 5, 97, 98>>
\* domain complete, one of the two port bytes missing
HeaderDomainNoPort == <<ATYPE_DOMAINNAME, 2, 97, 98, 0>>
\* an address type that is none of the three
HeaderUnknown == <<7, 1, 2>>
\* IPv6 2001:db8::1, port 8080, one byte of payload
HeaderV6 == <<ATYPE_IPV6, 32, 1, 13, 184, 0, 0, 0, 0, 0, 0, 0, 0, 0, 0, 0, 1, 31, 144, 9>>
\* IPv4 with the second port byte missing
HeaderV4Short == <<ATYPE_IPV4, 1, 2, 3, 4, 1>>

Plains == {HeaderV4, HeaderV6, HeaderDomain, HeaderDomainShort, HeaderDomainNoPort,
           HeaderV4Short, HeaderUnknown, << >>}

\* every plaintext as the cipher accepts it, and one chunk it rejects
Wires == {WireChunk(p, TRUE) : p \in Plains} \cup {WireChunk(HeaderV4, FALSE)}

\* lengths of the data the outbound peer hands to write
WriteLens == {1, 2}

(***************************************************************************)
(* State.                                                                  *)
(***************************************************************************)
VARIABLES
    user,                 \* the shared user: tcp_count, once_used_u, once_used_d
    _method,              \* the method every handler of the user is constructed with
    _stage,
    _transport_protocol,
    _transport,           \* None, or the reference to the client transport
    _peername,
    _cryptor,
    _remote,              \* None, or the outbound peer (named by its task)
    idle,                 \* time.time() - _last_active_time, up to the limit + 1
    ka,                   \* the _keep_alive task: none, run, sleep, done
    ka_closes,            \* per handler: the calls of close() by _keep_alive
    tclosed,              \* close() was called on the client transport
    phase,                \* the transport layer: new, made, eof, lost
    tasks,                \* the coroutines scheduled by ensure_future
    peers,                \* per handler: the outbound peers created for it
    remote_closed,        \* outbound peers on which close() was called
    rlog,                 \* per handler: the chunks written to outbound peers
    ndata,
    nwrites,
    plainU,               \* bytes of plaintext that decrypt returned
    writtenD,             \* bytes transport.write took
    last,                 \* what the last step did
    escaped               \* an exception left a callback

vars == <<user, _method, _stage, _transport_protocol, _transport, _peername,
          _cryptor, _remote, idle, ka, ka_closes, tclosed, phase, tasks, peers,
          remote_closed, rlog, ndata, nwrites, plainU, writtenD, last, escaped>>

\* the record of a step, with nothing done
\*   raised    the exception that reached the step's blanket handler
\*   closes    the calls of close()
\*   ok        what the collaborator answered: filter_user, decrypt
\*   handler   the stage handler run or scheduled; "attempt" once
\*             _handle_stage_init asked for an outbound connection or
\*             endpoint; "write" once _handle_stage_connect called
\*             _remote.write
\*   sent      bytes handed to the client transport or to the outbound peer
\*   counted   bytes added to the user's upload or download counter
\*   data      the bytes _handle_stage_init was given
\*   dst       dst_addr, dst_port and payload as _handle_stage_init hands
\*             them to the outbound peer
Obs(op, c) ==
    [op |-> op, c |-> c, raised |-> "none", closes |-> 0, ok |-> TRUE,
     handler |-> "none", sent |-> 0, counted |-> 0, data |-> << >>, dst |-> << >>]

Init ==
    /\ user = [tcp_count |-> 0, once_used_u |-> 0, once_used_d |-> 0]
    /\ _method \in Methods
    /\ _stage = [c \in Conns |-> STAGE_DESTROY]
    /\ _transport_protocol = [c \in Conns |-> None]
    /\ _transport = [c \in Conns |-> None]
    /\ _peername = [c \in Conns |-> None]
    /\ _cryptor = [c \in Conns |-> None]
    /\ _remote = [c \in Conns |-> None]
    /\ idle = [c \in Conns |-> 0]
    /\ ka = [c \in Conns |-> "none"]
    /\ ka_closes = [c \in Conns |-> 0]
    /\ tclosed = [c \in Conns |-> FALSE]
    /\ phase = [c \in Conns |-> "new"]
    /\ tasks = {}
    /\ peers = [c \in Conns |-> {}]
    /\ remote_closed = {}
    /\ rlog = [c \in Conns |-> << >>]
    /\ ndata = 0
    /\ nwrites = 0
    /\ plainU = 0
    /\ writtenD = 0
    /\ last = Obs("none", 0)
    /\ escaped = FALSE

(***************************************************************************)
(* The blanket `except: pool.sentry.captureException()` around the body of *)
(* every callback and coroutine: what of an exception leaves the callback. *)
(***************************************************************************)
\* no handler at all: the exception leaves the callback
no_except(exc) == exc

except_all(exc) == "none"

(***************************************************************************)
(* LocalHandler.close, on a handler with the given transport kind and      *)
(* transport reference; w carries what close changes: the transport's      *)
(* closed flag, user.tcp_count, the number of calls, and the exception     *)
(* its own handler captured.                                               *)
(***************************************************************************)
World(c) == [tclosed |-> tclosed[c], tcp_count |-> user.tcp_count, closes |-> 0,
             captured |-> "none", raised |-> "none"]

\* close without the test of line 76
close_unguarded(proto, transport, w) ==
    IF proto = TRANSPORT_TCP
    THEN [w EXCEPT !.tclosed = IF transport # None THEN TRUE ELSE @,
                   !.tcp_count = @ - 1,
                   !.closes = @ + 1]
    ELSE IF proto = TRANSPORT_UDP
    THEN [w EXCEPT !.closes = @ + 1]
    ELSE [w EXCEPT !.closes = @ + 1,
                   !.captured = "NotImplementedError",
                   !.raised = except_all("NotImplementedError")]

close(proto, transport, w) ==
    IF proto = TRANSPORT_TCP
    THEN [w EXCEPT !.tclosed = IF transport # None THEN TRUE ELSE @,
                   !.tcp_count = IF @ > 0 THEN @ - 1 ELSE @,
                   !.closes = @ + 1]
    ELSE IF proto = TRANSPORT_UDP
    THEN [w EXCEPT !.closes = @ + 1]
    ELSE [w EXCEPT !.closes = @ + 1,
                   !.captured = "NotImplementedError",
                   !.raised = except_all("NotImplementedError")]

\* the step's record once close has run: its calls, and what close let out
Seen(o, w) == [o EXCEPT !.closes = w.closes]

Escapes(raised, w) == except_all(raised) # "none" \/ w.raised # "none"

(***************************************************************************)
(* LocalHandler.handle_tcp_connection_made and handle_udp_connection_made  *)
(***************************************************************************)
\* handle_tcp_connection_made without the return of line 122: the transport
\* of a refused user is closed and then set up all the same
handle_tcp_connection_made_no_return(c, admitted, cr) ==
    /\ phase' = [phase EXCEPT ![c] = "made"]
    /\ LET w0 == IF admitted THEN World(c) ELSE [World(c) EXCEPT !.tclosed = TRUE]
           w == IF cr.exc = "NotImplementedError"
                THEN close(TRANSPORT_TCP, "transport", w0)
                ELSE w0
           raised == IF cr.exc \in {"none", "NotImplementedError"} THEN "none" ELSE cr.exc
       IN /\ _stage' = [_stage EXCEPT ![c] = STAGE_INIT]
          /\ _transport_protocol' = [_transport_protocol EXCEPT ![c] = TRANSPORT_TCP]
          /\ _transport' = [_transport EXCEPT ![c] = "transport"]
          /\ _peername' = [_peername EXCEPT ![c] = "peername"]
          /\ ka' = [ka EXCEPT ![c] = "run"]
          /\ _cryptor' = [_cryptor EXCEPT ![c] = IF cr.exc = "none" THEN cr.crypto ELSE @]
          /\ tclosed' = [tclosed EXCEPT ![c] = w.tclosed]
          /\ user' = [user EXCEPT !.tcp_count = w.tcp_count]
          /\ last' = Seen([Obs("tcp_made", c) EXCEPT !.raised = raised,
                                                     !.ok = admitted], w)
          /\ escaped' = (escaped \/ Escapes(raised, w))
    /\ UNCHANGED <<_method, _remote, idle, tasks, peers, remote_closed, rlog, ndata,
                   nwrites, plainU, writtenD,
                   ka_closes>>

handle_tcp_connection_made(c, admitted, cr) ==
    /\ phase' = [phase EXCEPT ![c] = "made"]
    /\ IF ~admitted
       THEN /\ tclosed' = [tclosed EXCEPT ![c] = TRUE]
            /\ last' = [Obs("tcp_made", c) EXCEPT !.ok = FALSE]
            /\ UNCHANGED <<user, _stage, _transport_protocol, _transport, _peername,
                           _cryptor, ka, escaped>>
       ELSE LET w == IF cr.exc = "NotImplementedError"
                     THEN close(TRANSPORT_TCP, "transport", World(c))
                     ELSE World(c)
                raised == IF cr.exc \in {"none", "NotImplementedError"}
                          THEN "none" ELSE cr.exc
            IN /\ _stage' = [_stage EXCEPT ![c] = STAGE_INIT]
               /\ _transport_protocol' = [_transport_protocol EXCEPT ![c] = TRANSPORT_TCP]
               /\ _transport' = [_transport EXCEPT ![c] = "transport"]
               /\ _peername' = [_peername EXCEPT ![c] = "peername"]
               /\ ka' = [ka EXCEPT ![c] = "run"]
               /\ _cryptor' = [_cryptor EXCEPT ![c] = IF cr.exc = "none" THEN cr.crypto ELSE @]
               /\ tclosed' = [tclosed EXCEPT ![c] = w.tclosed]
               /\ user' = [user EXCEPT !.tcp_count = w.tcp_count]
               /\ last' = Seen([Obs("tcp_made", c) EXCEPT !.raised = raised], w)
               /\ escaped' = (escaped \/ Escapes(raised, w))
    /\ UNCHANGED <<_method, _remote, idle, tasks, peers, remote_closed, rlog, ndata,
                   nwrites, plainU, writtenD,
                   ka_closes>>

handle_udp_connection_made(c, cr) ==
    /\ phase' = [phase EXCEPT ![c] = "made"]
    /\ LET w == IF cr.exc = "NotImplementedError"
                THEN close(TRANSPORT_UDP, "transport", World(c))
                ELSE World(c)
           raised == IF cr.exc \in {"none", "NotImplementedError"} THEN "none" ELSE cr.exc
       IN /\ _stage' = [_stage EXCEPT ![c] = STAGE_INIT]
          /\ _transport' = [_transport EXCEPT ![c] = "transport"]
          /\ _transport_protocol' = [_transport_protocol EXCEPT ![c] = TRANSPORT_UDP]
          /\ _peername' = [_peername EXCEPT ![c] = "peername"]
          /\ _cryptor' = [_cryptor EXCEPT ![c] = IF cr.exc = "none" THEN cr.crypto ELSE @]
          /\ tclosed' = [tclosed EXCEPT ![c] = w.tclosed]
          /\ user' = [user EXCEPT !.tcp_count = w.tcp_count]
          /\ last' = Seen([Obs("udp_made", c) EXCEPT !.raised = raised], w)
          /\ escaped' = (escaped \/ Escapes(raised, w))
    /\ UNCHANGED <<_method, _remote, idle, ka, tasks, peers, remote_closed, rlog,
                   ndata, nwrites, plainU, writtenD,
                   ka_closes>>

(***************************************************************************)
(* LocalHandler.write(data), data of n bytes: admitted is what             *)
(* pool.filter_user answers, outcome what the transport's write or sendto  *)
(* does.                                                                   *)
(***************************************************************************)
write(c, n, admitted, outcome) ==
    /\ nwrites < MaxWrites
    /\ nwrites' = nwrites + 1
    /\ LET proto == _transport_protocol[c]
           w1 == IF ~admitted THEN close(proto, _transport[c], World(c)) ELSE World(c)
           tcp == proto = TRANSPORT_TCP
           udp == proto = TRANSPORT_UDP
           wrote == (tcp \/ udp) /\ _transport[c] # None /\ outcome = "ok"
           memory == tcp /\ _transport[c] # None /\ outcome = "MemoryError"
           w2 == IF memory THEN close(proto, _transport[c], w1) ELSE w1
           raised == IF ~(tcp \/ udp) THEN "NotImplementedError"
                     ELSE IF _transport[c] = None THEN "AttributeError"
                     ELSE IF wrote \/ memory THEN "none"
                     ELSE outcome
           counted == IF tcp /\ wrote THEN n ELSE 0
       IN /\ tclosed' = [tclosed EXCEPT ![c] = w2.tclosed]
          /\ user' = [user EXCEPT !.tcp_count = w2.tcp_count,
                                  !.once_used_d = @ + counted]
          /\ writtenD' = writtenD + (IF tcp /\ wrote THEN n ELSE 0)
          /\ last' = Seen([Obs("write", c) EXCEPT !.ok = admitted,
                                                  !.raised = raised,
                                                  !.sent = IF wrote THEN n ELSE 0,
                                                  !.counted = counted], w2)
          /\ escaped' = (escaped \/ Escapes(raised, w2))
    /\ UNCHANGED <<_method, _stage, _transport_protocol, _transport, _peername,
                   _cryptor, _remote, idle, ka, phase, tasks, peers, remote_closed,
                   rlog, ndata, plainU,
                   ka_closes>>

(***************************************************************************)
(* LocalHandler.handle_data_received(data), data the wire chunk w, the     *)
(* k-th chunk to arrive.                                                   *)
(***************************************************************************)
Task(k, c, kind, data) ==
    [k |-> k, c |-> c, kind |-> kind, pc |-> "start", i |-> 0, data |-> data,
     dst_addr |-> << >>, dst_port |-> 0, payload |-> << >>]

\* a dispatch that streams as soon as the outbound connection is asked for
Dispatch_early(stage) ==
    IF stage = STAGE_INIT THEN "init"
    ELSE IF stage \in {STAGE_CONNECT, STAGE_STREAM} THEN "stream"
    ELSE IF stage = STAGE_ERROR THEN "error"
    ELSE "none"

\* the stage handler the dispatch of lines 169-180 picks
Dispatch(stage) ==
    IF stage = STAGE_INIT THEN "init"
    ELSE IF stage = STAGE_CONNECT THEN "connect"
    ELSE IF stage = STAGE_STREAM THEN "stream"
    ELSE IF stage = STAGE_ERROR THEN "error"
    ELSE "none"

handle_data_received(c, w) ==
    /\ ndata < MaxChunks
    /\ ndata' = ndata + 1
    /\ IF _cryptor[c] = None
       THEN \* self._cryptor.decrypt on None: AttributeError, to the outer handler
            /\ last' = [Obs("data", c) EXCEPT !.raised = "AttributeError"]
            /\ escaped' = (escaped \/ Escapes("AttributeError", World(c)))
            /\ UNCHANGED <<user, idle, tclosed, tasks, rlog, plainU>>
       ELSE LET k == ndata + 1
                d == decrypt(w)
                w1 == IF d.exc # "none"
                      THEN close(_transport_protocol[c], _transport[c], World(c))
                      ELSE World(c)
                \* after a failed decrypt `data` still names the bytes received
                data == IF d.exc = "none" THEN d.data ELSE w.bytes
                h == Dispatch(_stage[c])
                w2 == IF h = "error"
                      THEN close(_transport_protocol[c], _transport[c], w1)
                      ELSE w1
                \* _handle_stage_stream: its own handler captures what it raises
                streamed == h = "stream" /\ _remote[c] # None
            IN /\ user' = [user EXCEPT !.once_used_u = @ + Len(data),
                                       !.tcp_count = w2.tcp_count]
               /\ plainU' = plainU + (IF d.exc = "none" THEN Len(d.data) ELSE 0)
               /\ tclosed' = [tclosed EXCEPT ![c] = w2.tclosed]
               /\ tasks' = IF h \in {"init", "connect"}
                           THEN tasks \cup {Task(k, c, h, data)}
                           ELSE tasks
               /\ idle' = IF h = "stream" THEN [idle EXCEPT ![c] = 0] ELSE idle
               /\ rlog' = IF streamed THEN [rlog EXCEPT ![c] = Append(@, k)] ELSE rlog
               /\ last' = Seen([Obs("data", c) EXCEPT
                                   !.ok = (d.exc = "none"),
                                   !.handler = h,
                                   !.counted = Len(data),
                                   !.sent = IF streamed THEN Len(data) ELSE 0], w2)
               /\ escaped' = (escaped \/ Escapes("none", w2))
    /\ UNCHANGED <<_method, _stage, _transport_protocol, _transport, _peername,
                   _cryptor, _remote, ka, phase, peers, remote_closed, nwrites,
                   writtenD,
                   ka_closes>>

(***************************************************************************)
(* LocalHandler.close(), called from outside the handler (the outbound     *)
(* peers hold a reference to it).                                          *)
(***************************************************************************)
call_close(c) ==
    /\ LET w == close(_transport_protocol[c], _transport[c], World(c))
       IN /\ tclosed' = [tclosed EXCEPT ![c] = w.tclosed]
          /\ user' = [user EXCEPT !.tcp_count = w.tcp_count]
          /\ last' = Seen([Obs("close", c) EXCEPT !.raised = w.captured], w)
          /\ escaped' = (escaped \/ w.raised # "none")
    /\ UNCHANGED <<_method, _stage, _transport_protocol, _transport, _peername,
                   _cryptor, _remote, idle, ka, phase, tasks, peers, remote_closed,
                   rlog, ndata, nwrites, plainU, writtenD, ka_closes>>

(***************************************************************************)
(* LocalHandler.handle_eof_received and handle_connection_lost             *)
(***************************************************************************)
handle_eof_received(c) ==
    /\ phase' = [phase EXCEPT ![c] = "eof"]
    /\ LET w == close(_transport_protocol[c], _transport[c], World(c))
       IN /\ tclosed' = [tclosed EXCEPT ![c] = w.tclosed]
          /\ user' = [user EXCEPT !.tcp_count = w.tcp_count]
          /\ last' = Seen(Obs("eof", c), w)
          /\ escaped' = (escaped \/ w.raised # "none")
    /\ UNCHANGED <<_method, _stage, _transport_protocol, _transport, _peername,
                   _cryptor, _remote, idle, ka, tasks, peers, remote_closed, rlog,
                   ndata, nwrites, plainU, writtenD,
                   ka_closes>>

handle_connection_lost(c) ==
    /\ phase' = [phase EXCEPT ![c] = "lost"]
    /\ remote_closed' = IF _remote[c] # None THEN remote_closed \cup {_remote[c]}
                        ELSE remote_closed
    /\ last' = Obs("lost", c)
    /\ UNCHANGED <<user, _method, _stage, _transport_protocol, _transport, _peername,
                   _cryptor, _remote, idle, ka, tclosed, tasks, peers, rlog, ndata,
                   nwrites, plainU, writtenD, escaped,
                   ka_closes>>

\* the outbound peers the task of chunk k creates: the protocol instance of
\* loop.create_connection, and that of loop.create_datagram_endpoint, which
\* is taken to exist from the moment the endpoint is asked for
RemoteTCP(k) == ToString(k)
RemoteUDP(k) == ToString(k)

(***************************************************************************)
(* LocalHandler._handle_stage_init(data): from its start to the await of   *)
(* the outbound connection, and from the await's outcome to its end.       *)
(***************************************************************************)
_handle_stage_init(t) ==
    /\ t \in tasks /\ t.kind = "init" /\ t.pc = "start"
    /\ LET c == t.c
           p == ParseHeader(t.data)
           proto == _transport_protocol[c]
           parsed == p.exc = "none" /\ ~p.unknown
           w == IF p.exc = "none" /\ p.unknown
                THEN close(proto, _transport[c], World(c)) ELSE World(c)
           raised == IF p.exc # "none" THEN p.exc
                     ELSE IF parsed /\ proto \notin {TRANSPORT_TCP, TRANSPORT_UDP}
                     THEN "NotImplementedError" ELSE "none"
       IN /\ _stage' = IF parsed /\ proto = TRANSPORT_TCP
                       THEN [_stage EXCEPT ![c] = STAGE_CONNECT]
                       ELSE IF parsed /\ proto = TRANSPORT_UDP
                       THEN [_stage EXCEPT ![c] = STAGE_INIT]
                       ELSE _stage
          /\ tasks' = IF parsed /\ proto = TRANSPORT_TCP
                      THEN (tasks \ {t}) \cup
                           {[t EXCEPT !.pc = "await", !.dst_addr = p.dst_addr,
                                      !.dst_port = p.dst_port, !.payload = p.payload]}
                      ELSE tasks \ {t}
          /\ peers' = IF parsed /\ proto = TRANSPORT_UDP
                      THEN [peers EXCEPT ![c] = @ \cup {RemoteUDP(t.k)}]
                      ELSE peers
          /\ tclosed' = [tclosed EXCEPT ![c] = w.tclosed]
          /\ user' = [user EXCEPT !.tcp_count = w.tcp_count]
          /\ last' = Seen([Obs("init", c) EXCEPT
                              !.raised = raised, !.data = t.data,
                              !.handler = IF parsed /\ raised = "none" THEN "attempt"
                                          ELSE "none",
                              !.dst = IF parsed /\ raised = "none"
                                      THEN <<p.dst_addr, p.dst_port, p.payload>>
                                      ELSE << >>], w)
          /\ escaped' = (escaped \/ Escapes(raised, w))
    /\ UNCHANGED <<_method, _transport_protocol, _transport, _peername, _cryptor,
                   _remote, idle, ka, phase, remote_closed, rlog, ndata,
                   nwrites, plainU, writtenD,
                   ka_closes>>

\* the resumption with the count taken when the connection is asked for,
\* whatever becomes of it, and the failures told apart the other way round
_handle_stage_init_resume_swapped(t, outcome) ==
    /\ t \in tasks /\ t.kind = "init" /\ t.pc = "await"
    /\ LET c == t.c
           w == IF outcome = "ok" THEN World(c)
                ELSE close(_transport_protocol[c], _transport[c],
                           [World(c) EXCEPT !.tcp_count = @ + 1])
       IN /\ user' = [user EXCEPT !.tcp_count = IF outcome = "ok" THEN @ + 1
                                                ELSE w.tcp_count]
          /\ _remote' = IF outcome = "ok" THEN [_remote EXCEPT ![c] = RemoteTCP(t.k)]
                        ELSE _remote
          /\ peers' = IF outcome = "ok" THEN [peers EXCEPT ![c] = @ \cup {RemoteTCP(t.k)}]
                       ELSE peers
          /\ _stage' = [_stage EXCEPT ![c] = IF outcome = "ok" THEN STAGE_STREAM
                                             ELSE IF outcome = "OSError" THEN STAGE_ERROR
                                             ELSE STAGE_DESTROY]
          /\ tclosed' = [tclosed EXCEPT ![c] = w.tclosed]
          /\ last' = Seen([Obs("init_done", c) EXCEPT
                              !.ok = (outcome = "ok"),
                              !.raised = IF outcome = "ok" THEN "none" ELSE outcome], w)
          /\ escaped' = (escaped \/ w.raised # "none")
    /\ tasks' = tasks \ {t}
    /\ UNCHANGED <<_method, _transport_protocol, _transport, _peername, _cryptor,
                   idle, ka, phase, remote_closed, rlog, ndata, nwrites, plainU,
                   writtenD,
                   ka_closes>>

\* outcome: "ok", "OSError" (IOError and OSError), "Exception" (any other)
_handle_stage_init_resume(t, outcome) ==
    /\ t \in tasks /\ t.kind = "init" /\ t.pc = "await"
    /\ LET c == t.c
           w == IF outcome = "ok" THEN World(c)
                ELSE close(_transport_protocol[c], _transport[c], World(c))
       IN /\ user' = [user EXCEPT !.tcp_count = IF outcome = "ok" THEN @ + 1
                                                ELSE w.tcp_count]
          /\ _remote' = IF outcome = "ok" THEN [_remote EXCEPT ![c] = RemoteTCP(t.k)]
                        ELSE _remote
          /\ peers' = IF outcome = "ok" THEN [peers EXCEPT ![c] = @ \cup {RemoteTCP(t.k)}]
                       ELSE peers
          /\ _stage' = [_stage EXCEPT ![c] = IF outcome = "ok" THEN STAGE_STREAM
                                             ELSE IF outcome = "OSError" THEN STAGE_DESTROY
                                             ELSE STAGE_ERROR]
          /\ tclosed' = [tclosed EXCEPT ![c] = w.tclosed]
          /\ last' = Seen([Obs("init_done", c) EXCEPT
                              !.ok = (outcome = "ok"),
                              !.raised = IF outcome = "ok" THEN "none" ELSE outcome], w)
          /\ escaped' = (escaped \/ w.raised # "none")
    /\ tasks' = tasks \ {t}
    /\ UNCHANGED <<_method, _transport_protocol, _transport, _peername, _cryptor,
                   idle, ka, phase, remote_closed, rlog, ndata, nwrites, plainU,
                   writtenD,
                   ka_closes>>

(***************************************************************************)
(* LocalHandler._handle_stage_connect(data): the poll loop from one        *)
(* suspension to the next; t.i is the loop index it resumes at.            *)
(***************************************************************************)
_handle_stage_connect(t) ==
    /\ t \in tasks /\ t.kind = "connect"
    /\ LET c == t.c
           polls == t.i < PollBudget
           sleeps == polls /\ _stage[c] = STAGE_CONNECT
           writes == polls /\ _stage[c] = STAGE_STREAM
           raised == IF writes /\ _remote[c] = None THEN "AttributeError" ELSE "none"
           wrote == writes /\ _remote[c] # None
       IN /\ tasks' = IF sleeps THEN (tasks \ {t}) \cup {[t EXCEPT !.i = @ + 1, !.pc = "sleep"]}
                      ELSE tasks \ {t}
          /\ rlog' = IF wrote THEN [rlog EXCEPT ![c] = Append(@, t.k)] ELSE rlog
          /\ last' = [Obs("connect", c) EXCEPT
                         !.raised = raised,
                         !.handler = IF writes THEN "write" ELSE "none",
                         !.sent = IF wrote THEN Len(t.data) ELSE 0]
          /\ escaped' = (escaped \/ except_all(raised) # "none")
    /\ UNCHANGED <<user, _method, _stage, _transport_protocol, _transport, _peername,
                   _cryptor, _remote, idle, ka, tclosed, phase, peers, remote_closed,
                   ndata, nwrites, plainU, writtenD,
                   ka_closes>>

(***************************************************************************)
(* TimeoutHandler._keep_alive: one turn of the loop, and the clock.        *)
(***************************************************************************)
\* the loop goes round again after close()
no_break == "run"

\* line 32: the break after close() ends the task
break == "done"

_keep_alive(c) ==
    /\ ka[c] = "run"
    /\ LET expired == _transport[c] # None /\ idle[c] > timeout_limit
           w == IF expired THEN close(_transport_protocol[c], _transport[c], World(c))
                ELSE World(c)
       IN /\ ka' = [ka EXCEPT ![c] = IF _transport[c] = None THEN "done"
                                     ELSE IF expired THEN break
                                     ELSE "sleep"]
          /\ ka_closes' = [ka_closes EXCEPT ![c] = IF expired THEN @ + 1 ELSE @]
          /\ tclosed' = [tclosed EXCEPT ![c] = w.tclosed]
          /\ user' = [user EXCEPT !.tcp_count = w.tcp_count]
          /\ last' = Seen(Obs("keep_alive", c), w)
          /\ escaped' = (escaped \/ w.raised # "none")
    /\ UNCHANGED <<_method, _stage, _transport_protocol, _transport, _peername,
                   _cryptor, _remote, idle, phase, tasks, peers, remote_closed, rlog,
                   ndata, nwrites, plainU, writtenD>>

\* the timestamp of c can still be read by a _keep_alive task
Watched(c) == ka[c] \in {"run", "sleep"}

\* d units of time pass, and sleep(1) of every sleeping _keep_alive is over.
\* A _keep_alive that wakes before its handler has been idle for more than
\* timeout_limit only goes back to sleep, so its wake-ups during the d units
\* change nothing as long as no handler crosses the limit before their end.
Tick(d) ==
    /\ \E c \in Conns : Watched(c) /\ (idle[c] <= timeout_limit \/ ka[c] = "sleep")
    /\ \A c \in Conns : Watched(c) /\ idle[c] <= timeout_limit
                          => idle[c] + d - 1 <= timeout_limit \/ idle[c] = 0
    /\ idle' = [c \in Conns |-> IF Watched(c) /\ idle[c] <= timeout_limit
                                THEN Min(idle[c] + d, timeout_limit + 1) ELSE idle[c]]
    /\ ka' = [c \in Conns |-> IF ka[c] = "sleep" THEN "run" ELSE ka[c]]
    /\ UNCHANGED <<user, _method, _stage, _transport_protocol, _transport, _peername,
                   _cryptor, _remote, tclosed, phase, tasks, peers, remote_closed,
                   rlog, ndata, nwrites, plainU, writtenD, last, escaped,
                   ka_closes>>

(***************************************************************************)
(* The transport layer, the outbound peers and the event loop drive the    *)
(* handlers H with the wire chunks W, the cryptor outcomes whose exception *)
(* is in E, and the clock in steps of d.  write is called by an outbound   *)
(* peer of the handler that is still open.                                 *)
(***************************************************************************)
WriteOutcomes == {"ok", "MemoryError", "OSError"}
ConnectOutcomes == {"ok", "OSError", "Exception"}

\* the handlers are numbered in the order of their connections
Fresh(c) == phase[c] = "new" /\ \A b \in Conns : b < c => phase[b] # "new"

Made(H, E) ==
    \/ \E c \in H, admitted \in BOOLEAN :
          \E cr \in {x \in NewCryptor(_method, "key") : x.exc \in E} :
             Fresh(c) /\ handle_tcp_connection_made(c, admitted, cr)
    \/ \E c \in H : \E cr \in {x \in NewCryptor(_method, "key") : x.exc \in E} :
          Fresh(c) /\ handle_udp_connection_made(c, cr)

Received(H, W) ==
    \/ \E c \in H, w \in W :
          phase[c] = "made" /\ ndata < MaxData /\ handle_data_received(c, w)
    \/ \E c \in H : phase[c] = "made" /\ handle_eof_received(c)
    \/ \E c \in H : phase[c] \in {"made", "eof"} /\ handle_connection_lost(c)

Written(H, L, O) ==
    \E c \in H, n \in L, admitted \in BOOLEAN, outcome \in O :
       peers[c] \ remote_closed # {} /\ write(c, n, admitted, outcome)

\* ensure_future queues the first step of a task behind the first steps of the
\* tasks made before it; the order in which awaits are over is free
Ready(t) == t.pc = "start" => \A u \in tasks : u.pc = "start" => t.k <= u.k

Scheduled ==
    \/ \E t \in tasks : Ready(t) /\ _handle_stage_init(t)
    \/ \E t \in tasks, outcome \in ConnectOutcomes : _handle_stage_init_resume(t, outcome)
    \/ \E t \in tasks : Ready(t) /\ _handle_stage_connect(t)
    \/ \E c \in Conns : _keep_alive(c)

\* what Cryptor(...) may end with, and the one outcome that binds a cryptor
AnyCryptor == {"none", "TypeError", "NotImplementedError"}
BoundCryptor == {"none"}

\* one handler, every input
Next ==
    \/ Made({1}, AnyCryptor)
    \/ Received({1}, Wires)
    \/ Written({1}, WriteLens, WriteOutcomes)
    \/ Scheduled
    \/ Tick(timeout_limit + 1)

Spec == Init /\ [][Next]_vars

\* every handler of the user, each with a cryptor, a well-formed header as
\* the only chunk, and writes that the transport takes
SharedNext ==
    \/ Made(Conns, AnyCryptor)
    \/ Received(Conns, {WireChunk(HeaderV4, TRUE)})
    \/ Written(Conns, {2}, {"ok"})
    \/ Scheduled
    \/ Tick(timeout_limit + 1)

SharedSpec == Init /\ [][SharedNext]_vars

\* One handler, well-formed chunks and a clock that advances by one unit. The
\* event loop runs every task that is ready, and time passes.
IdleNext ==
    \/ Made({1}, AnyCryptor)
    \/ Received({1}, {WireChunk(HeaderV4, TRUE)})
    \/ Scheduled
    \/ Tick(1)

\* One handler whose callbacks are called in any order and in any state, also
\* before handle_tcp_connection_made or handle_udp_connection_made.
ApiNext ==
    \/ Made({1}, AnyCryptor)
    \/ \E w \in Wires : ndata < MaxData /\ handle_data_received(1, w)
    \/ \E n \in WriteLens, admitted \in BOOLEAN, outcome \in WriteOutcomes :
          write(1, n, admitted, outcome)
    \/ call_close(1)
    \/ Scheduled
    \/ Tick(timeout_limit + 1)

ApiSpec == Init /\ [][ApiNext]_vars

\* first payloads for the header parse: every address type with several
\* hosts, ports and payloads (also empty ones), and tags of no address type
ParseInputs ==
    {<<ATYPE_IPV4>> \o h \o p \o pl :
        h \in {<<1, 2, 3, 4>>, <<0, 0, 0, 0>>, <<255, 0, 10, 3>>},
        p \in {<<1, 187>>, <<0, 80>>}, pl \in {<< >>, <<9>>}}
    \cup {<<ATYPE_DOMAINNAME, Len(h)>> \o h \o p \o pl :
        h \in {<< >>, <<97>>, <<97, 98>>},
        p \in {<<1, 187>>, <<0, 80>>, <<255, 255>>}, pl \in {<< >>, <<8, 9>>}}
    \cup {SliceFrom(HeaderV6, 0), Slice(HeaderV6, 0, 19)}
    \cup {<<t, 1, 2>> : t \in {0, 1, 2, 5, 7, 255}}

\* One handler with a cryptor, which gets the first payloads above.
ParseNext ==
    \/ Made({1}, BoundCryptor)
    \/ \E p \in ParseInputs :
          /\ phase[1] = "made" /\ ndata < MaxData
          /\ handle_data_received(1, WireChunk(p, TRUE))
    \/ Scheduled

ParseSpec == Init /\ [][ParseNext]_vars

\* One handler with a cryptor and well-formed chunks, under an event loop
\* that runs the first step of every task and wakes every sleep(0.2); an
\* outbound connection may stay pending.
PollNext ==
    \/ Made({1}, BoundCryptor)
    \/ Received({1}, {WireChunk(HeaderV4, TRUE)})
    \/ Scheduled

PollSpec ==
    /\ Init /\ [][PollNext]_vars
    /\ \A k \in 1..MaxData :
          WF_vars(\E t \in tasks :
                     t.k = k /\ Ready(t) /\ (_handle_stage_init(t) \/ _handle_stage_connect(t)))

\* One TCP or UDP handler with a cryptor that gets MaxChunks well-formed
\* chunks, the first of them the header, and is not closed meanwhile.
OrderNext ==
    \/ Made({1}, BoundCryptor)
    \/ phase[1] = "made" /\ handle_data_received(1, WireChunk(HeaderV4, TRUE))
    \/ Scheduled

OrderSpec == Init /\ [][OrderNext]_vars

IdleSpec ==
    /\ Init /\ [][IdleNext]_vars
    /\ WF_vars(Tick(1))
    /\ \A c \in Conns : WF_vars(_keep_alive(c))

(***************************************************************************)
(* The claims.                                                             *)
(***************************************************************************)

\* C1: a write(data) made while filter_user answers false closes the
\* connection, hands no byte of data to the client transport (no
\* transport.write, no sendto) and leaves the download counter as it was.
C1_RefusedWriteSendsNothing ==
    (last.op = "write" /\ ~last.ok)
        => (last.closes >= 1 /\ last.sent = 0 /\ last.counted = 0)

\* C2: when decrypt raises in handle_data_received the connection is closed
\* and the chunk is dropped: the upload counter is not changed, no stage
\* handler is run or scheduled for it, nothing of it reaches the outbound peer.
C2_FailedDecryptAborts ==
    (last.op = "data" /\ ~last.ok)
        => (last.closes >= 1 /\ last.counted = 0 /\ last.handler = "none"
            /\ last.sent = 0)

\* C3: the upload counter is the sum of the plaintext lengths of the chunks
\* that were decrypted, the download counter the sum of the lengths of the
\* data written to TCP client transports; a failed decrypt and a write that
\* did not happen add nothing.
C3_CountersArePlaintextSums ==
    user.once_used_u = plainU /\ user.once_used_d = writtenD

\* C4: under every interleaving of establishment results and close() calls
\* (EOF, idle timeout, refused write, error stage, repeated closes) over all
\* handlers of a user, user.tcp_count never goes below 0.
C4_TcpCountNotNegative == user.tcp_count >= 0

\* a handler whose outbound connection was established is closed a second
\* time, by its _keep_alive after the EOF, with the count already at 0
C4_Witness ==
    \E c \in Conns :
        /\ last.op = "keep_alive" /\ last.c = c /\ last.closes = 1
        /\ phase[c] = "eof" /\ peers[c] # {}
        /\ user.tcp_count = 0

\* C5: on a TCP handler whose _keep_alive was started, once the handler has
\* been idle for more than timeout_limit (20) units, and unless
\* keep_alive_active moves the timestamp again, _keep_alive eventually calls
\* close(); over its whole life it calls close() exactly once, and ends with it.
C5_IdleHandlerClosedOnce ==
    /\ [](\A c \in Conns : /\ ka_closes[c] <= 1
                           /\ (ka[c] = "done") <=> (ka_closes[c] = 1)
                           /\ Watched(c) => _transport_protocol[c] = TRANSPORT_TCP)
    /\ \A c \in Conns :
          (Watched(c) /\ idle[c] > timeout_limit)
              ~> (ka[c] = "done" \/ idle[c] <= timeout_limit)

\* _keep_alive has closed a handler that saw neither EOF nor a lost connection
C5_Witness ==
    \E c \in Conns :
        /\ last.op = "keep_alive" /\ last.c = c /\ last.closes = 1
        /\ ka[c] = "done" /\ ka_closes[c] = 1
        /\ phase[c] = "made" /\ idle[c] > timeout_limit

\* C6: no data is relayed before stage = STREAM: whenever _handle_stage_stream
\* or a poll of _handle_stage_connect hands inbound payload to
\* self._remote.write, the handler's stage is STAGE_STREAM and its _remote is
\* set (so the call does not fail on None either).
C6_RelayOnlyInStream ==
    (/\ last.op \in {"data", "connect"}
     /\ last.handler \in {"stream", "write"} \/ last.sent > 0)
        => /\ _stage[last.c] = STAGE_STREAM
           /\ _remote[last.c] # None
           /\ last.raised = "none"

\* a poll of _handle_stage_connect found the connection established and
\* relayed the chunk it had been holding
C6_Witness ==
    /\ last.op = "connect" /\ last.handler = "write" /\ last.sent > 0
    /\ rlog[last.c] # << >>

\* C7: on a TCP handler, in every state between suspension points, _remote is
\* set if and only if the stage is STAGE_STREAM, also when several chunks are
\* dispatched in STAGE_INIT and when one establishment fails after another
\* has succeeded.
C7_RemoteIffStream ==
    \A c \in Conns :
        _transport_protocol[c] = TRANSPORT_TCP
            => ((_remote[c] # None) <=> (_stage[c] = STAGE_STREAM))

\* C8: no failure leaves handle_tcp_connection_made,
\* handle_udp_connection_made, handle_data_received, write or close: in any
\* state of the handler (also before any connection_made, with no transport
\* protocol, no cryptor or no _remote) and whatever a collaborator raises, the
\* exception is captured by the sentry and the callback returns normally.
C8_NoFailureLeavesACallback == ~escaped

\* before any connection_made, write() was called for a user the filter
\* refuses: the close() it calls and write() itself both raised
\* NotImplementedError, and both were captured
C8_Witness ==
    /\ last.op = "write" /\ phase[last.c] = "new" /\ ~last.ok
    /\ last.closes = 1 /\ last.raised = "NotImplementedError"
    /\ _transport_protocol[last.c] = None /\ _cryptor[last.c] = None
    /\ _remote[last.c] = None
    /\ ~escaped

\* a DomainName header whose length byte asks for more bytes of host and port
\* than the chunk holds
TruncatedDomain(d) ==
    /\ Len(d) >= 2 /\ d[1] = ATYPE_DOMAINNAME
    /\ 2 + d[2] + 2 > Len(d)

\* C9: when _handle_stage_init gets a DomainName header whose length byte N
\* exceeds the bytes that remain (the host or the 2 port bytes are
\* incomplete), the header is rejected: the connection is closed, no outbound
\* connection or endpoint is attempted, and the stage does not become
\* STAGE_CONNECT.
C9_TruncatedDomainRejected ==
    (last.op = "init" /\ TruncatedDomain(last.data))
        => /\ last.closes >= 1
           /\ last.handler # "attempt"
           /\ _stage[last.c] # STAGE_CONNECT

\* a first payload that holds a whole header: its tag is one of the three
\* address types and the bytes of host and port are all there
WellFormed(d) ==
    /\ Len(d) >= 1
    /\ \/ d[1] = ATYPE_IPV4 /\ Len(d) >= 7
       \/ d[1] = ATYPE_IPV6 /\ Len(d) >= 19
       \/ d[1] = ATYPE_DOMAINNAME /\ Len(d) >= 2 /\ 2 + d[2] + 2 <= Len(d)

UnknownTag(d) ==
    Len(d) >= 1 /\ d[1] \notin {ATYPE_IPV4, ATYPE_IPV6, ATYPE_DOMAINNAME}

\* the port as the two bytes of the wire, most significant first
PortBytes(port) == <<port \div 256, port % 256>>

\* the bytes of the wire that spell the parsed destination dst = <<host, port,
\* payload>> under the address type tag
Encode(tag, dst) ==
    IF tag = ATYPE_IPV4
    THEN <<tag>> \o dst[1][2] \o PortBytes(dst[2]) \o dst[3]
    ELSE IF tag = ATYPE_IPV6
    THEN <<tag>> \o [i \in 1..16 |-> IF i % 2 = 1 THEN dst[1][2][(i + 1) \div 2] \div 256
                                     ELSE dst[1][2][i \div 2] % 256]
               \o PortBytes(dst[2]) \o dst[3]
    ELSE <<tag, Len(dst[1])>> \o dst[1] \o PortBytes(dst[2]) \o dst[3]

\* C10: _handle_stage_init parses every well-formed first payload bit-exactly:
\* IPv4: host = bytes 1..4, port = bytes 5..6 big-endian, payload from byte 7;
\* IPv6: host = bytes 1..16, port = bytes 17..18, payload from byte 19;
\* DomainName with length byte N: host = the next N bytes, port = the 2 bytes
\* after them, payload = all that follows (so the parsed destination spells
\* the received bytes again); any other tag closes the connection and no
\* outbound connection is attempted.
C10_HeaderParsedBitExact ==
    last.op = "init" =>
        /\ WellFormed(last.data) =>
              /\ last.handler = "attempt" /\ last.raised = "none"
              /\ Len(last.dst) = 3
              /\ last.data[1] = ATYPE_IPV4 =>
                    last.dst[1][1] = "AF_INET" /\ Len(last.dst[1][2]) = 4
              /\ last.data[1] = ATYPE_IPV6 =>
                    last.dst[1][1] = "AF_INET6" /\ Len(last.dst[1][2]) = 8
              /\ last.data[1] = ATYPE_DOMAINNAME => Len(last.dst[1]) = last.data[2]
              /\ Encode(last.data[1], last.dst) = last.data
        /\ UnknownTag(last.data) =>
              last.closes = 1 /\ last.handler = "none" /\ last.dst = << >>

\* the DomainName header 3, 2, "ab", 0, 80, 8, 9 was parsed to host "ab",
\* port 80, payload 8, 9 and the outbound connection was asked for
C10_Witness ==
    /\ last.op = "init" /\ last.data = HeaderDomain
    /\ last.handler = "attempt"
    /\ last.dst = << <<97, 98>>, 80, <<8, 9>> >>
    /\ _stage[last.c] = STAGE_CONNECT

\* C11: when handle_tcp_connection_made is called for a user that
\* pool.filter_user does not admit, the offered transport is closed and
\* nothing else changes: _stage, _transport, _transport_protocol, _peername
\* and _cryptor keep the values __init__ gave them, no _keep_alive is
\* started, and the user's counters are as they were.
C11_RefusedUserChangesNothing ==
    [][\A c \in Conns :
          (phase[c] = "new" /\ phase'[c] = "made"
           /\ last'.op = "tcp_made" /\ last'.c = c /\ ~last'.ok)
             => /\ tclosed'[c]
                /\ _stage'[c] = STAGE_DESTROY /\ _stage[c] = STAGE_DESTROY
                /\ _transport'[c] = None /\ _transport_protocol'[c] = None
                /\ _peername'[c] = None /\ _cryptor'[c] = None
                /\ _remote'[c] = None
                /\ ka'[c] = "none" /\ ka_closes' = ka_closes
                /\ user' = user /\ tasks' = tasks
                /\ last'.closes = 0 /\ last'.raised = "none"]_vars

\* the transport offered for a refused user has been closed, and the handler
\* is as __init__ left it
C11_Witness ==
    /\ last.op = "tcp_made" /\ ~last.ok
    /\ phase[last.c] = "made" /\ tclosed[last.c]
    /\ _stage[last.c] = STAGE_DESTROY /\ ka[last.c] = "none"

\* a cipher family declares the handler's method
Supported == \E name \in DOMAIN SUPPORT_METHODS : _method \in SUPPORT_METHODS[name]

\* C12: whenever the construction of the Cryptor fails inside
\* handle_tcp_connection_made or handle_udp_connection_made (in particular
\* for a method no cipher family supports), close() is called and the failure
\* does not leave the callback; and for an admitted user and a supported
\* method the call ends with a cryptor bound and the stage STAGE_INIT.
C12_CryptorFailureCloses ==
    (last.op \in {"tcp_made", "udp_made"} /\ last.ok)
        => /\ ~escaped
           /\ _cryptor[last.c] = None => last.closes >= 1
           /\ Supported => _cryptor[last.c] # None /\ _stage[last.c] = STAGE_INIT

\* the _handle_stage_init tasks of handler c that wait for create_connection
Awaiting(T, c) == {t \in T : t.c = c /\ t.kind = "init" /\ t.pc = "await"}

\* C13: on a TCP handler whose header parsed, the stage is STAGE_CONNECT
\* before _handle_stage_init suspends on create_connection, and when the
\* attempt resolves exactly one outcome applies: success sets STAGE_STREAM,
\* stores the outbound peer and adds exactly 1 to user.tcp_count; IOError or
\* OSError calls close() and sets STAGE_DESTROY; any other exception calls
\* close() and sets STAGE_ERROR; in both failures tcp_count is not increased
\* and no peer is stored.
C13_EstablishmentOutcomes ==
    [][\A c \in Conns :
          /\ (Awaiting(tasks', c) \ Awaiting(tasks, c) # {})
                => /\ _stage'[c] = STAGE_CONNECT
                   /\ _transport_protocol[c] = TRANSPORT_TCP
                   /\ last'.op = "init" /\ last'.handler = "attempt"
          /\ (last'.op = "init" /\ last'.c = c /\ last'.handler = "attempt"
              /\ last' # last /\ _transport_protocol[c] = TRANSPORT_TCP)
                => Awaiting(tasks', c) \ Awaiting(tasks, c) # {}
          /\ (Awaiting(tasks, c) \ Awaiting(tasks', c) # {})
                => /\ last'.op = "init_done" /\ last'.c = c
                   /\ \/ /\ last'.raised = "none" /\ last'.closes = 0
                         /\ _stage'[c] = STAGE_STREAM
                         /\ _remote'[c] # None /\ _remote'[c] \in peers'[c]
                         /\ user'.tcp_count = user.tcp_count + 1
                      \/ /\ last'.raised = "OSError" /\ last'.closes = 1
                         /\ _stage'[c] = STAGE_DESTROY
                         /\ user'.tcp_count <= user.tcp_count
                         /\ _remote' = _remote /\ peers' = peers
                      \/ /\ last'.raised = "Exception" /\ last'.closes = 1
                         /\ _stage'[c] = STAGE_ERROR
                         /\ user'.tcp_count <= user.tcp_count
                         /\ _remote' = _remote /\ peers' = peers]_vars

\* an establishment failed with an exception other than IOError and OSError:
\* the handler was closed once and is in STAGE_ERROR with no peer
C13_Witness ==
    /\ last.op = "init_done" /\ last.raised = "Exception" /\ last.closes = 1
    /\ _stage[last.c] = STAGE_ERROR /\ _remote[last.c] = None
    /\ peers[last.c] = {} /\ tclosed[last.c]

\* C14: the stage of a handler moves monotonically: once its connection is
\* made the only steps are STAGE_INIT to STAGE_CONNECT, STAGE_CONNECT to
\* STAGE_STREAM, and any stage to STAGE_DESTROY or STAGE_ERROR; it never goes
\* back (STREAM to CONNECT or INIT, CONNECT to INIT) and never leaves
\* STAGE_DESTROY or STAGE_ERROR.
C14_StagesMonotonic ==
    [][\A c \in Conns :
          (phase[c] # "new" /\ _stage'[c] # _stage[c])
             => \/ _stage[c] = STAGE_INIT /\ _stage'[c] = STAGE_CONNECT
                \/ _stage[c] = STAGE_CONNECT /\ _stage'[c] = STAGE_STREAM
                \/ /\ _stage'[c] \in {STAGE_DESTROY, STAGE_ERROR}
                   /\ _stage[c] \notin {STAGE_DESTROY, STAGE_ERROR}]_vars

\* the _handle_stage_connect task that holds chunk k is alive in T
Holding(T, k) == \E u \in T : u.kind = "connect" /\ u.k = k

\* C15: for a chunk held by _handle_stage_connect, if the stage becomes
\* STAGE_STREAM at any moment before the 25 polls of the chunk are used up,
\* the last interval of sleep included, the chunk is written to the outbound
\* peer exactly once and the coroutine returns: a task that ends while the
\* handler is in STAGE_STREAM with its peer set has written its chunk.
C15_HeldChunkForwarded ==
    [][\A t \in tasks :
          (/\ t.kind = "connect" /\ ~Holding(tasks', t.k)
           /\ _stage[t.c] = STAGE_STREAM /\ _remote[t.c] # None)
             => /\ rlog'[t.c] = Append(rlog[t.c], t.k)
                /\ \A i \in 1..Len(rlog[t.c]) : rlog[t.c][i] # t.k]_vars

\* C16: a _handle_stage_connect that sees STAGE_STREAM at none of its polls
\* (the stage stays STAGE_CONNECT for all of them, or becomes STAGE_DESTROY or
\* STAGE_ERROR) writes nothing to the outbound peer, sleeps at most 25 times,
\* and always ends.
C16_PollWithoutStreamEnds ==
    /\ [](\A t \in tasks : t.kind = "connect" => t.i <= 25)
    /\ [][\A t \in tasks :
             (t.kind = "connect" /\ t \notin tasks' /\ _stage[t.c] # STAGE_STREAM)
                => /\ rlog' = rlog
                   /\ last'.op = "connect" /\ last'.sent = 0 /\ last'.handler = "none"]_vars
    /\ \A k \in 1..MaxData : Holding(tasks, k) ~> ~Holding(tasks, k)

\* a _handle_stage_connect has used its 25 sleeps with the handler still in
\* STAGE_CONNECT and ended without a write
C16_Witness ==
    /\ last.op = "connect" /\ last.handler = "none" /\ last.sent = 0
    /\ _stage[last.c] = STAGE_CONNECT /\ rlog[last.c] = << >>
    /\ ndata = MaxData /\ \A t \in tasks : t.kind # "connect"

\* C17: on one TCP handler the decrypted chunks that are written to the
\* outbound peer are written in the order in which handle_data_received got
\* them, for every interleaving of chunks that arrive in STAGE_CONNECT, the
\* step to STAGE_STREAM, and chunks that arrive in STAGE_STREAM.
C17_RelayedInArrivalOrder ==
    \A c \in Conns :
        \A i, j \in 1..Len(rlog[c]) : i < j => rlog[c][i] < rlog[c][j]

\* close() has been called on the TCP handler c (only close() closes the
\* transport of a handler whose _transport_protocol is set)
ClosedTCP(c) == _transport_protocol[c] = TRANSPORT_TCP /\ tclosed[c]

\* C18: _keep_alive does not leak: when close() is called on a TCP handler
\* before the idle limit, close() leaves self._transport absent, so that
\* _keep_alive ends at its next turn, and _keep_alive does not call close()
\* once more.
C18_KeepAliveEndsAfterClose ==
    /\ [](\A c \in Conns : ClosedTCP(c) => _transport[c] = None)
    /\ [][\A c \in Conns : ClosedTCP(c) => ka_closes'[c] = ka_closes[c]]_vars

\* the TCP handlers whose outbound connection was established and on which
\* close() has not been called
OpenEstablished ==
    {c \in Conns : /\ _transport_protocol[c] = TRANSPORT_TCP
                   /\ peers[c] # {} /\ ~tclosed[c]}

\* C19: user.tcp_count is the number of the user's TCP connections whose
\* outbound establishment succeeded and on which close() has not been called
\* yet: a close() on a connection that never reached STAGE_STREAM and a second
\* close() on the same connection leave the count as it is.
C19_TcpCountExact == user.tcp_count = Cardinality(OpenEstablished)

\* nothing is left to run for handler c: the client side is lost and none of
\* its coroutines is alive
Quiet(c) == phase[c] = "lost" /\ \A t \in tasks : t.c # c

\* the outbound peers of c on which close() has not been called
OpenPeers(c) == peers[c] \ remote_closed

\* C20: every outbound peer created for a TCP handler is closed in the end
\* once the client side is lost, for every interleaving of handle_eof_received
\* and handle_connection_lost with the establishment, also when
\* handle_connection_lost arrives in STAGE_CONNECT and the establishment
\* succeeds afterwards; and a handler already closed never enters
\* STAGE_STREAM with an open outbound peer.
C20_OutboundPeerClosed ==
    /\ [](\A c \in Conns :
             (_transport_protocol[c] = TRANSPORT_TCP /\ Quiet(c)) => OpenPeers(c) = {})
    /\ [][\A c \in Conns :
             (/\ _transport_protocol[c] = TRANSPORT_TCP
              /\ tclosed[c] \/ phase[c] = "lost"
              /\ _stage[c] # STAGE_STREAM /\ _stage'[c] = STAGE_STREAM)
                => peers'[c] \ remote_closed' = {}]_vars

=============================================================================
